---------------------------- MODULE Spec2Model ----------------------------
(***************************************************************************)
(* State-machine model of mindsdb's PostgresHandler                        *)
(* (mindsdb/integrations/handlers/postgres_handler/postgres_handler.py).   *)
(*                                                                         *)
(* Two specifications share the module:                                    *)
(*   Spec       PostgresHandler.subscribe: the change-feed subscription,   *)
(*              its dedicated connection, the trigger/function pair it     *)
(*              installs, the poll loop and the cleanup in `finally`.      *)
(*   SpecQuery  the handler's own connection: connect, disconnect,         *)
(*              check_connection, native_query and query_stream.           *)
(* The database server and the other sessions that change rows are the     *)
(* environment.                                                            *)
(***************************************************************************)
EXTENDS Integers, Sequences, FiniteSets, TLC

(***************************************************************************)
(* Bounds of the model.                                                    *)
(***************************************************************************)
\* inserts/updates/foreign NOTIFYs the other sessions perform in one behaviour
MaxChanges == 2
\* operations called on the handler in one behaviour
MaxCalls == 2
\* rows of a parameter-set handed to native_query
MaxParams == 2
\* rows in the result a query_stream call fetches
MaxRows == 2
\* largest fetch_size of a query_stream call
MaxFetch == 2

(***************************************************************************)
(* The database the subscription watches: one existing table "t" with the  *)
(* columns a and b and at most one row.                                    *)
(***************************************************************************)
TableColumns == <<"a", "b">>
ColumnNames == {TableColumns[i] : i \in 1..Len(TableColumns)}
ExistingTables == {"t"}
Vals == {0, 1}
\* SQL NULL
Null == -1
Rows == [ColumnNames -> Vals]
\* OLD in a BEFORE INSERT trigger: a record-valued null
NullRow == [c \in ColumnNames |-> Null]

\* subscribe() calls that can be in flight
Subscribers == {1, 2}
\* arguments of subscribe(): table_name and columns (a list, or None/empty)
TableNames == {"t", "nosuch"}
ColumnLists == {<<>>, <<"a">>, <<"a", "b">>, <<"z">>}
NoName == <<>>
\* params=None
NoParams == -1
\* statements handed to native_query and query_stream: one that returns only a
\* command status (DDL/DML), one that returns rows (SELECT), one that changes
\* rows and returns them (INSERT/UPDATE ... RETURNING), one the server rejects
QueryKinds == {"command", "select", "returning", "invalid"}
\* no exception
NoExc == [site |-> "none", cause |-> "none"]

VARIABLES
  \* ---- one subscribe() call per subscriber ----
  sub_pc,         \* position in subscribe()
  table_name,     \* argument table_name
  columns,        \* argument columns (list)
  watched,        \* local `columns` after line 483/494: the set
  trigger_name,   \* local trigger_name (NoName until computed)
  stop_event,     \* stop_event.is_set()
  conn,           \* the dedicated connection: "none", "open", "closed"
  conn_broken,    \* the server side of conn is gone: every statement raises
  notify_handler, \* process_event is registered on conn
  inbox,          \* notifications received by conn and not yet dispatched
  delivered,      \* rows callback() was invoked with, in order
  polled,         \* a poll statement ("SELECT 1") was executed
  exc,            \* the exception in flight or raised: where and why (NoExc: none)
  stop_at_call,   \* history: stop_event was set when subscribe() was called
  cleanup_started,\* history: the finally block (line 547) was entered
  polls_after_stop, \* history: poll statements executed with stop_event set
  \* ---- database ----
  db_row,         \* the row of table t (NullRow: no row)
  db_functions,   \* names of the installed functions
  db_triggers,    \* names of the triggers installed on table t
  db_listen,      \* channel each subscriber's session LISTENs on
  changes,        \* changes made by the other sessions so far
  change_log      \* history: every insert/update with the sessions it reached

VARIABLES
  \* ---- the handler and its own connection ----
  is_connected,   \* self.is_connected
  connection,     \* self.connection: 0 (None) or the id of a connection
  open_conns,     \* connections opened by psycopg.connect and not closed
  broken_conns,   \* connections whose server side is gone
  conn_count,     \* connections opened so far (the last id)
  autocommit,     \* connection_args['autocommit'] (line 157)
  h_pc,           \* position inside the operation in progress ("idle": none)
  h_op,           \* the operation in progress, or the last one
  query,          \* argument query: the kind of statement
  params,         \* argument params: NoParams (None) or the number of rows
  need_to_close,  \* local need_to_close
  response,       \* local response / how the last operation ended
  h_exc,          \* where the exception that left the operation was raised
  in_flight,      \* an exception is propagating through the finally block
  executed,       \* times the statement was executed by this operation
  effects,        \* what became of the effects of this operation's statement
  commits,        \* connection.commit() calls of this operation that succeeded
  rollbacks,      \* connection.rollback() calls of this operation that succeeded
  before_connected, \* history: is_connected when the operation was called
  before_conn,    \* history: self.connection when the operation was called
  own_conn,       \* history: the connection this operation opened (0: none)
  qs_remaining,   \* rows of the result not fetched yet
  fetch_size,     \* argument fetch_size
  qs_yields,      \* batches yielded by the generator so far
  calls           \* operations called so far

VARIABLES
  \* ---- one column of a result, typed and materialized ----
  internal_type_name, \* argument of _map_type
  mysql_type,     \* what _map_type returned
  description,    \* cursor.description: the Postgres type of the column
  result,         \* the rows of the result: the column's value in each
  batch_size,     \* argument fetch_size of the stream over `result`
  table_response, \* what _make_table_response(result, cursor) returned
  batches,        \* the data frames query_stream yielded for `result`
  applied         \* the functions applied so far

dataVars == <<internal_type_name, mysql_type, description, result, batch_size,
              table_response, batches, applied>>

handlerVars == <<is_connected, connection, open_conns, broken_conns, conn_count,
                 autocommit, h_pc, h_op, query, params, need_to_close, response,
                 h_exc, in_flight, executed, effects, commits, rollbacks,
                 before_connected, before_conn, own_conn, qs_remaining,
                 fetch_size, qs_yields, calls>>

subVars == <<sub_pc, table_name, columns, watched, trigger_name, stop_event,
             conn, conn_broken, notify_handler, inbox, delivered, polled,
             exc, stop_at_call, cleanup_started, polls_after_stop>>
dbVars == <<db_row, db_functions, db_triggers, db_listen, changes, change_log>>

(***************************************************************************)
(* Pure helpers.                                                           *)
(***************************************************************************)
SeqToSet(q) == {q[i] : i \in 1..Len(q)}

\* all orders in which the elements of a finite set can be iterated
Orderings(S) ==
  {q \in [1..Cardinality(S) -> S] : \A x \in S : \E i \in DOMAIN q : q[i] = x}

\* line 475 and line 484: f'mdb_notify_{table_name}' + '_' + '_'.join(columns).
\* The name is the table followed by the columns in the order `order`.
TriggerName(table, order) == <<table>> \o order

\* row_to_json(NEW)::text (line 502): the columns in table order, each with
\* its value.
RowToJson(row) ==
  [wellformed |-> TRUE,
   items |-> [i \in 1..Len(TableColumns) |-> <<TableColumns[i], row[TableColumns[i]]>>]]

\* a payload that is not JSON, sent by some session with NOTIFY
Garbage == [wellformed |-> FALSE, items |-> <<>>]

\* json.loads(event.payload) (line 524) on a well-formed payload: the dict
JsonLoads(payload) ==
  [k \in {payload.items[i][1] : i \in 1..Len(payload.items)} |->
     LET i == CHOOSE j \in 1..Len(payload.items) : payload.items[j][1] = k
     IN  payload.items[i][2]]


(***************************************************************************)
(* The database-side function and the notification handler.                *)
(***************************************************************************)
\* func_code without the IF guard of line 491
FunctionPublishesAlways(cols, old, new) == TRUE

\* func_code (lines 496-507), run by the trigger for a row change old -> new:
\* with watched columns the function publishes only
\* IF (NEW.c, ...) IS DISTINCT FROM (OLD.c, ...); without, always.
FunctionPublishes(cols, old, new) ==
  cols = {} \/ \E c \in cols : new[c] # old[c]

\* process_event (lines 522-530) on one notification.  json.loads raises
\* JSONDecodeError on a payload that is not JSON; the clause
\* `except json.JSONDecoder` names a class that is no exception, so matching
\* it raises TypeError and the error leaves the handler.
process_event(event, cols) ==
  IF ~event.wellformed
    THEN [kind |-> "raise", row |-> NullRow]
    ELSE LET row == JsonLoads(event)
         IN  IF cols = {} \/ cols \cap DOMAIN row # {}
               THEN [kind |-> "callback", row |-> row]
               ELSE [kind |-> "skip", row |-> row]

\* psycopg hands the notifications read with a statement's result to the
\* registered handlers one by one, inside conn.execute; an exception of a
\* handler (or of callback, when cb_raises) leaves the rest queued and
\* propagates out of conn.execute.
RECURSIVE Dispatch(_, _, _, _)
Dispatch(queue, cols, out, cb_raises) ==
  IF queue = <<>>
    THEN [delivered |-> out, inbox |-> <<>>, raised |-> "no"]
    ELSE LET r == process_event(Head(queue), cols)
         IN  CASE r.kind = "raise" ->
                    [delivered |-> out, inbox |-> Tail(queue), raised |-> "decode"]
               [] r.kind = "callback" /\ cb_raises ->
                    [delivered |-> Append(out, r.row), inbox |-> Tail(queue),
                     raised |-> "callback"]
               [] r.kind = "callback" /\ ~cb_raises ->
                    Dispatch(Tail(queue), cols, Append(out, r.row), cb_raises)
               [] OTHER -> Dispatch(Tail(queue), cols, out, cb_raises)

\* the client side of one conn.execute of subscriber s: with no handler
\* registered the notifications read are dropped
ClientDispatch(s, cb_raises) ==
  IF notify_handler[s]
    THEN Dispatch(inbox[s], watched[s], delivered[s], cb_raises)
    ELSE [delivered |-> delivered[s], inbox |-> <<>>, raised |-> "no"]

\* the session of subscriber s is alive on the server
SessionAlive(s) == conn[s] = "open" /\ ~conn_broken[s]


(***************************************************************************)
(* PostgresHandler.subscribe, statement by statement.                      *)
(***************************************************************************)
\* an exception leaves subscribe() from outside the try block (lines 472-520)
\* or from inside the finally block (lines 547-551): nothing else runs
RaiseOut(s, cause) ==
  /\ sub_pc' = [sub_pc EXCEPT ![s] = "raised"]
  /\ exc' = [exc EXCEPT ![s] = [site |-> sub_pc[s], cause |-> cause]]

\* the start of subscribe() without the column probe of lines 479-481
SubscribeConnectNoProbe(s) ==
  /\ sub_pc[s] = "start"
  /\ stop_at_call' = [stop_at_call EXCEPT ![s] = stop_event[s]]
  /\ \/ /\ conn' = [conn EXCEPT ![s] = "open"]
        /\ trigger_name' = [trigger_name EXCEPT ![s] = TriggerName(table_name[s], <<>>)]
        /\ sub_pc' = [sub_pc EXCEPT ![s] = "create_function"]
        /\ UNCHANGED exc
     \/ /\ RaiseOut(s, "connect")
        /\ UNCHANGED <<conn, trigger_name>>
  /\ UNCHANGED <<polls_after_stop, table_name, columns, watched, stop_event,
                 conn_broken, notify_handler, inbox, delivered, polled,
                 cleanup_started>>
  /\ UNCHANGED dbVars
  /\ UNCHANGED <<handlerVars, dataVars>>

\* lines 469-477 and 494: open the dedicated autocommit connection;
\* psycopg.connect may raise
SubscribeConnect(s) ==
  /\ sub_pc[s] = "start"
  /\ stop_at_call' = [stop_at_call EXCEPT ![s] = stop_event[s]]
  /\ \/ /\ conn' = [conn EXCEPT ![s] = "open"]
        /\ trigger_name' = [trigger_name EXCEPT ![s] = TriggerName(table_name[s], <<>>)]
        /\ sub_pc' = [sub_pc EXCEPT ![s] =
                        IF columns[s] # <<>> THEN "probe" ELSE "create_function"]
        /\ UNCHANGED exc
     \/ /\ RaiseOut(s, "connect")
        /\ UNCHANGED <<conn, trigger_name>>
  /\ UNCHANGED <<polls_after_stop, table_name, columns, watched, stop_event, conn_broken,
                 notify_handler, inbox, delivered, polled, cleanup_started>>
  /\ UNCHANGED dbVars
  /\ UNCHANGED <<handlerVars, dataVars>>

\* the probe of line 481 succeeds on the server
ProbeOk(s) ==
  /\ ~conn_broken[s]
  /\ table_name[s] \in ExistingTables
  /\ SeqToSet(columns[s]) \subseteq ColumnNames

\* lines 479-492: probe the columns, then columns = set(columns) and the name
\* gets the columns in the iteration order of that set
ProbeColumns(s) ==
  /\ sub_pc[s] = "probe"
  /\ IF ProbeOk(s)
       THEN /\ watched' = [watched EXCEPT ![s] = SeqToSet(columns[s])]
            /\ \E order \in Orderings(SeqToSet(columns[s])) :
                 trigger_name' = [trigger_name EXCEPT ![s] =
                                    TriggerName(table_name[s], order)]
            /\ sub_pc' = [sub_pc EXCEPT ![s] = "create_function"]
            /\ UNCHANGED exc
       ELSE /\ RaiseOut(s, "statement")
            /\ UNCHANGED <<watched, trigger_name>>
  /\ UNCHANGED <<polls_after_stop, table_name, columns, stop_event, conn, conn_broken,
                 notify_handler, inbox, delivered, polled, stop_at_call,
                 cleanup_started>>
  /\ UNCHANGED dbVars
  /\ UNCHANGED <<handlerVars, dataVars>>

\* line 508: CREATE OR REPLACE FUNCTION; the body is not checked against the
\* table, so only a broken connection makes it fail
CreateFunction(s) ==
  /\ sub_pc[s] = "create_function"
  /\ IF ~conn_broken[s]
       THEN /\ db_functions' =
                 {f \in db_functions : f.name # trigger_name[s]}
                 \cup {[name |-> trigger_name[s], watched |-> watched[s]]}
            /\ sub_pc' = [sub_pc EXCEPT ![s] = "create_trigger"]
            /\ UNCHANGED exc
       ELSE /\ RaiseOut(s, "statement")
            /\ UNCHANGED db_functions
  /\ UNCHANGED <<polls_after_stop, table_name, columns, watched, trigger_name, stop_event, conn,
                 conn_broken, notify_handler, inbox, delivered, polled,
                 stop_at_call, cleanup_started>>
  /\ UNCHANGED <<db_row, db_triggers, db_listen, changes, change_log>>
  /\ UNCHANGED <<handlerVars, dataVars>>

\* the statement of lines 511-516 succeeds on the server: the table and the
\* function must exist
CreateTriggerOk(s) ==
  /\ ~conn_broken[s]
  /\ table_name[s] \in ExistingTables
  /\ \E f \in db_functions : f.name = trigger_name[s]

\* lines 511-516: CREATE OR REPLACE TRIGGER ... BEFORE INSERT OR UPDATE
CreateTrigger(s) ==
  /\ sub_pc[s] = "create_trigger"
  /\ IF CreateTriggerOk(s)
       THEN /\ db_triggers' = db_triggers \cup {trigger_name[s]}
            /\ sub_pc' = [sub_pc EXCEPT ![s] = "install_commit"]
            /\ UNCHANGED exc
       ELSE /\ RaiseOut(s, "statement")
            /\ UNCHANGED db_triggers
  /\ UNCHANGED <<polls_after_stop, table_name, columns, watched, trigger_name, stop_event, conn,
                 conn_broken, notify_handler, inbox, delivered, polled,
                 stop_at_call, cleanup_started>>
  /\ UNCHANGED <<db_row, db_functions, db_listen, changes, change_log>>
  /\ UNCHANGED <<handlerVars, dataVars>>

\* conn.commit() on the autocommit connection sends nothing while the driver
\* sees the connection idle; on a broken connection it raises once the driver
\* has noticed, which depends on timing
CommitMayRaise(s) == conn_broken[s]

\* line 517: conn.commit()
InstallCommit(s) ==
  /\ sub_pc[s] = "install_commit"
  /\ \/ /\ sub_pc' = [sub_pc EXCEPT ![s] = "listen"]
        /\ UNCHANGED exc
     \/ /\ CommitMayRaise(s)
        /\ RaiseOut(s, "statement")
  /\ UNCHANGED <<polls_after_stop, table_name, columns, watched, trigger_name, stop_event, conn,
                 conn_broken, notify_handler, inbox, delivered, polled,
                 stop_at_call, cleanup_started>>
  /\ UNCHANGED dbVars
  /\ UNCHANGED <<handlerVars, dataVars>>

\* lines 520 and 533: LISTEN on the channel, then (inside the try block, with
\* no statement in between) conn.add_notify_handler(process_event)
Listen(s) ==
  /\ sub_pc[s] = "listen"
  /\ IF ~conn_broken[s]
       THEN /\ db_listen' = [db_listen EXCEPT ![s] = trigger_name[s]]
            /\ notify_handler' = [notify_handler EXCEPT ![s] = TRUE]
            /\ sub_pc' = [sub_pc EXCEPT ![s] = "loop"]
            /\ UNCHANGED exc
       ELSE /\ RaiseOut(s, "statement")
            /\ UNCHANGED <<db_listen, notify_handler>>
  /\ UNCHANGED <<polls_after_stop, table_name, columns, watched, trigger_name, stop_event, conn,
                 conn_broken, inbox, delivered, polled, stop_at_call,
                 cleanup_started>>
  /\ UNCHANGED <<db_row, db_functions, db_triggers, changes, change_log>>
  /\ UNCHANGED <<handlerVars, dataVars>>

\* the loop test whose `return` goes past the drop statements of the finally
\* block, to conn.close()
LoopCheckSkipsCleanup(s) ==
  /\ sub_pc[s] = "loop"
  /\ IF stop_event[s]
       THEN /\ sub_pc' = [sub_pc EXCEPT ![s] = "close"]
            /\ cleanup_started' = [cleanup_started EXCEPT ![s] = TRUE]
       ELSE /\ sub_pc' = [sub_pc EXCEPT ![s] = "poll"]
            /\ UNCHANGED cleanup_started
  /\ UNCHANGED <<polls_after_stop, table_name, columns, watched, trigger_name,
                 stop_event, conn, conn_broken, notify_handler, inbox,
                 delivered, polled, exc, stop_at_call>>
  /\ UNCHANGED dbVars
  /\ UNCHANGED <<handlerVars, dataVars>>

\* lines 535-538: the loop tests stop_event; `return` inside the try block
\* passes control to the finally block
LoopCheck(s) ==
  /\ sub_pc[s] = "loop"
  /\ IF stop_event[s]
       THEN /\ sub_pc' = [sub_pc EXCEPT ![s] = "drop_trigger"]
            /\ cleanup_started' = [cleanup_started EXCEPT ![s] = TRUE]
       ELSE /\ sub_pc' = [sub_pc EXCEPT ![s] = "poll"]
            /\ UNCHANGED cleanup_started
  /\ UNCHANGED <<polls_after_stop, table_name, columns, watched, trigger_name, stop_event, conn,
                 conn_broken, notify_handler, inbox, delivered, polled, exc,
                 stop_at_call>>
  /\ UNCHANGED dbVars
  /\ UNCHANGED <<handlerVars, dataVars>>

\* lines 542-544: conn.execute("SELECT 1").fetchone() dispatches the pending
\* notifications, then time.sleep; an exception passes control to the
\* finally block and stays in flight
Poll(s) ==
  /\ sub_pc[s] = "poll"
  /\ IF conn_broken[s]
       THEN /\ sub_pc' = [sub_pc EXCEPT ![s] = "drop_trigger"]
            /\ exc' = [exc EXCEPT ![s] = [site |-> "poll", cause |-> "statement"]]
            /\ cleanup_started' = [cleanup_started EXCEPT ![s] = TRUE]
            /\ UNCHANGED <<inbox, delivered, polled>>
       ELSE \E cb_raises \in BOOLEAN :
              LET d == ClientDispatch(s, cb_raises)
              IN  /\ inbox' = [inbox EXCEPT ![s] = d.inbox]
                  /\ delivered' = [delivered EXCEPT ![s] = d.delivered]
                  /\ polled' = [polled EXCEPT ![s] = TRUE]
                  /\ IF d.raised = "no"
                       THEN /\ sub_pc' = [sub_pc EXCEPT ![s] = "loop"]
                            /\ UNCHANGED <<exc, cleanup_started>>
                       ELSE /\ sub_pc' = [sub_pc EXCEPT ![s] = "drop_trigger"]
                            /\ exc' = [exc EXCEPT ![s] =
                                         [site |-> "poll", cause |-> d.raised]]
                            /\ cleanup_started' =
                                 [cleanup_started EXCEPT ![s] = TRUE]
  /\ polls_after_stop' =
       [polls_after_stop EXCEPT ![s] = IF stop_event[s] THEN @ + 1 ELSE @]
  /\ UNCHANGED <<table_name, columns, watched, trigger_name, stop_event, conn,
                 conn_broken, notify_handler, stop_at_call>>
  /\ UNCHANGED dbVars
  /\ UNCHANGED <<handlerVars, dataVars>>

\* line 547 succeeds on the server: DROP TRIGGER has no IF EXISTS
DropTriggerOk(s) == trigger_name[s] \in db_triggers

\* line 547, in the finally block: drop the trigger.  process_event is still
\* registered, so the statement dispatches pending notifications too.
DropTrigger(s) ==
  /\ sub_pc[s] = "drop_trigger"
  /\ IF conn_broken[s]
       THEN /\ RaiseOut(s, "statement")
            /\ UNCHANGED <<inbox, delivered, db_triggers>>
       ELSE \E cb_raises \in BOOLEAN :
              LET d == ClientDispatch(s, cb_raises)
              IN  /\ inbox' = [inbox EXCEPT ![s] = d.inbox]
                  /\ delivered' = [delivered EXCEPT ![s] = d.delivered]
                  /\ db_triggers' = db_triggers \ {trigger_name[s]}
                  /\ IF d.raised # "no"
                       THEN RaiseOut(s, d.raised)
                       ELSE IF ~DropTriggerOk(s)
                              THEN RaiseOut(s, "statement")
                              ELSE /\ sub_pc' = [sub_pc EXCEPT ![s] = "drop_function"]
                                   /\ UNCHANGED exc
  /\ UNCHANGED <<polls_after_stop, table_name, columns, watched, trigger_name, stop_event, conn,
                 conn_broken, notify_handler, polled, stop_at_call,
                 cleanup_started>>
  /\ UNCHANGED <<db_row, db_functions, db_listen, changes, change_log>>
  /\ UNCHANGED <<handlerVars, dataVars>>

\* line 548 succeeds on the server: the function exists and no trigger
\* depends on it (DROP FUNCTION has neither IF EXISTS nor CASCADE)
DropFunctionOk(s) ==
  /\ \E f \in db_functions : f.name = trigger_name[s]
  /\ trigger_name[s] \notin db_triggers

\* line 548: drop the function
DropFunction(s) ==
  /\ sub_pc[s] = "drop_function"
  /\ IF conn_broken[s]
       THEN /\ RaiseOut(s, "statement")
            /\ UNCHANGED <<inbox, delivered, db_functions>>
       ELSE \E cb_raises \in BOOLEAN :
              LET d == ClientDispatch(s, cb_raises)
              IN  /\ inbox' = [inbox EXCEPT ![s] = d.inbox]
                  /\ delivered' = [delivered EXCEPT ![s] = d.delivered]
                  /\ db_functions' =
                       IF DropFunctionOk(s)
                         THEN {f \in db_functions : f.name # trigger_name[s]}
                         ELSE db_functions
                  /\ IF d.raised # "no"
                       THEN RaiseOut(s, d.raised)
                       ELSE IF ~DropFunctionOk(s)
                              THEN RaiseOut(s, "statement")
                              ELSE /\ sub_pc' = [sub_pc EXCEPT ![s] = "cleanup_commit"]
                                   /\ UNCHANGED exc
  /\ UNCHANGED <<polls_after_stop, table_name, columns, watched, trigger_name, stop_event, conn,
                 conn_broken, notify_handler, polled, stop_at_call,
                 cleanup_started>>
  /\ UNCHANGED <<db_row, db_triggers, db_listen, changes, change_log>>
  /\ UNCHANGED <<handlerVars, dataVars>>

\* line 549: conn.commit()
CleanupCommit(s) ==
  /\ sub_pc[s] = "cleanup_commit"
  /\ \/ /\ sub_pc' = [sub_pc EXCEPT ![s] = "close"]
        /\ UNCHANGED exc
     \/ /\ CommitMayRaise(s)
        /\ RaiseOut(s, "statement")
  /\ UNCHANGED <<polls_after_stop, table_name, columns, watched, trigger_name, stop_event, conn,
                 conn_broken, notify_handler, inbox, delivered, polled,
                 stop_at_call, cleanup_started>>
  /\ UNCHANGED dbVars
  /\ UNCHANGED <<handlerVars, dataVars>>

\* line 551: conn.close(), then subscribe() returns, or re-raises the
\* exception that left the try block
Close(s) ==
  /\ sub_pc[s] = "close"
  /\ conn' = [conn EXCEPT ![s] = "closed"]
  /\ inbox' = [inbox EXCEPT ![s] = <<>>]
  /\ db_listen' = [db_listen EXCEPT ![s] = NoName]
  /\ sub_pc' = [sub_pc EXCEPT ![s] = IF exc[s] = NoExc THEN "returned" ELSE "raised"]
  /\ UNCHANGED <<polls_after_stop, table_name, columns, watched, trigger_name, stop_event,
                 conn_broken, notify_handler, delivered, polled, exc,
                 stop_at_call, cleanup_started>>
  /\ UNCHANGED <<db_row, db_functions, db_triggers, changes, change_log>>
  /\ UNCHANGED <<handlerVars, dataVars>>

(***************************************************************************)
(* The environment of subscribe(): the caller's stop_event, the other       *)
(* sessions of the database, and the network.                              *)
(***************************************************************************)
\* subscribe() has been called and has neither returned nor raised
Running(s) == sub_pc[s] \notin {"unused", "start", "returned", "raised"}

\* the caller sets stop_event, before the call or while it runs
SetStop(s) ==
  /\ sub_pc[s] \notin {"unused", "returned", "raised"}
  /\ ~stop_event[s]
  /\ stop_event' = [stop_event EXCEPT ![s] = TRUE]
  /\ UNCHANGED <<polls_after_stop, sub_pc, table_name, columns, watched, trigger_name, conn,
                 conn_broken, notify_handler, inbox, delivered, polled, exc,
                 stop_at_call, cleanup_started>>
  /\ UNCHANGED dbVars
  /\ UNCHANGED <<handlerVars, dataVars>>

\* the notification, if any, that the trigger named ch publishes on channel
\* ch for the row change old -> new (line 502, guarded by line 491)
Published(ch, old, new) ==
  IF /\ ch \in db_triggers
     /\ \E f \in db_functions : f.name = ch /\ FunctionPublishes(f.watched, old, new)
    THEN <<RowToJson(new)>>
    ELSE <<>>

\* sessions whose subscription is listening on its channel with its trigger
\* installed
Armed == {s \in Subscribers : /\ SessionAlive(s)
                              /\ db_listen[s] # NoName
                              /\ db_listen[s] \in db_triggers}

\* another session inserts the row (when there is none) or updates it, possibly
\* to the same values, and commits: every trigger on the table fires
RowChange(new) ==
  /\ \E s \in Subscribers : Running(s)
  /\ changes < MaxChanges
  /\ changes' = changes + 1
  /\ db_row' = new
  /\ inbox' = [s \in Subscribers |->
                 IF SessionAlive(s) /\ db_listen[s] # NoName
                   THEN inbox[s] \o Published(db_listen[s], db_row, new)
                   ELSE inbox[s]]
  /\ change_log' = Append(change_log,
                          [old |-> db_row, new |-> new, armed |-> Armed])
  /\ UNCHANGED <<polls_after_stop, sub_pc, table_name, columns, watched, trigger_name, stop_event,
                 conn, conn_broken, notify_handler, delivered, polled, exc,
                 stop_at_call, cleanup_started>>
  /\ UNCHANGED <<db_functions, db_triggers, db_listen>>
  /\ UNCHANGED <<handlerVars, dataVars>>

\* another session sends NOTIFY <channel>, '<text that is not JSON>'
ForeignNotify(ch) ==
  /\ ch # NoName
  /\ changes < MaxChanges
  /\ changes' = changes + 1
  /\ inbox' = [s \in Subscribers |->
                 IF SessionAlive(s) /\ db_listen[s] = ch
                   THEN Append(inbox[s], Garbage)
                   ELSE inbox[s]]
  /\ UNCHANGED <<polls_after_stop, sub_pc, table_name, columns, watched, trigger_name, stop_event,
                 conn, conn_broken, notify_handler, delivered, polled, exc,
                 stop_at_call, cleanup_started>>
  /\ UNCHANGED <<db_row, db_functions, db_triggers, db_listen, change_log>>
  /\ UNCHANGED <<handlerVars, dataVars>>

\* the server or the network ends the session of the dedicated connection
BreakConnection(s) ==
  /\ Running(s)
  /\ conn[s] = "open"
  /\ ~conn_broken[s]
  /\ conn_broken' = [conn_broken EXCEPT ![s] = TRUE]
  /\ UNCHANGED <<polls_after_stop, sub_pc, table_name, columns, watched, trigger_name, stop_event,
                 conn, notify_handler, inbox, delivered, polled, exc,
                 stop_at_call, cleanup_started>>
  /\ UNCHANGED dbVars
  /\ UNCHANGED <<handlerVars, dataVars>>

(***************************************************************************)
(* Specification of subscribe().                                           *)
(***************************************************************************)
\* the state before the subscribe() calls of the subscribers in `active`
SubscribeInit(active) ==
  /\ sub_pc = [s \in Subscribers |-> IF s \in active THEN "start" ELSE "unused"]
  /\ table_name \in [Subscribers -> TableNames]
  /\ columns \in [Subscribers -> ColumnLists]
  /\ \A s \in Subscribers \ active : table_name[s] = "t" /\ columns[s] = <<>>
  /\ watched = [s \in Subscribers |-> {}]
  /\ trigger_name = [s \in Subscribers |-> NoName]
  /\ stop_event = [s \in Subscribers |-> FALSE]
  /\ conn = [s \in Subscribers |-> "none"]
  /\ conn_broken = [s \in Subscribers |-> FALSE]
  /\ notify_handler = [s \in Subscribers |-> FALSE]
  /\ inbox = [s \in Subscribers |-> <<>>]
  /\ delivered = [s \in Subscribers |-> <<>>]
  /\ polled = [s \in Subscribers |-> FALSE]
  /\ exc = [s \in Subscribers |-> NoExc]
  /\ stop_at_call = [s \in Subscribers |-> FALSE]
  /\ cleanup_started = [s \in Subscribers |-> FALSE]
  /\ polls_after_stop = [s \in Subscribers |-> 0]
  /\ db_row \in {NullRow, [c \in ColumnNames |-> 0]}
  /\ db_functions = {}
  /\ db_triggers = {}
  /\ db_listen = [s \in Subscribers |-> NoName]
  /\ changes = 0
  /\ change_log = <<>>

SubscribeStep(s) ==
  \/ SubscribeConnect(s)
  \/ ProbeColumns(s)
  \/ CreateFunction(s)
  \/ CreateTrigger(s)
  \/ InstallCommit(s)
  \/ Listen(s)
  \/ LoopCheck(s)
  \/ Poll(s)
  \/ DropTrigger(s)
  \/ DropFunction(s)
  \/ CleanupCommit(s)
  \/ Close(s)

SubscribeEnv ==
  \/ \E s \in Subscribers : SetStop(s)
  \/ \E new \in Rows : RowChange(new)
  \/ \E s \in Subscribers : ForeignNotify(db_listen[s])
  \/ \E s \in Subscribers : BreakConnection(s)

(***************************************************************************)
(* The handler's own connection: connect, disconnect, check_connection.    *)
(***************************************************************************)
\* need_to_close that never asks for the connection to be closed
NeedToCloseNever == FALSE

\* need_to_close = not self.is_connected (lines 206, 274, 313)
NeedToClose == ~is_connected

\* the bookkeeping of a call of operation op on the idle handler
BeginOp(op) ==
  /\ h_pc = "idle"
  /\ calls < MaxCalls
  /\ calls' = calls + 1
  /\ h_op' = op
  /\ in_flight' = FALSE
  /\ executed' = 0
  /\ effects' = "none"
  /\ commits' = 0
  /\ rollbacks' = 0
  /\ before_connected' = is_connected
  /\ before_conn' = connection
  /\ qs_yields' = 0

\* the handler's fields that connect() and disconnect() read and write
HandlerState ==
  [is_connected |-> is_connected, connection |-> connection,
   open_conns |-> open_conns, conn_count |-> conn_count]

SetHandlerState(st) ==
  /\ is_connected' = st.is_connected
  /\ connection' = st.connection
  /\ open_conns' = st.open_conns
  /\ conn_count' = st.conn_count

\* connect() (lines 176-187): returns self.connection when is_connected;
\* otherwise psycopg.connect either gives a new connection (ok) or raises
\* psycopg.Error, which connect() re-raises after is_connected = False
connect(st, ok) ==
  IF st.is_connected
    THEN st
    ELSE IF ok
      THEN [is_connected |-> TRUE,
            connection |-> st.conn_count + 1,
            open_conns |-> st.open_conns \cup {st.conn_count + 1},
            conn_count |-> st.conn_count + 1]
      ELSE [st EXCEPT !.is_connected = FALSE]

\* connect() raises: only psycopg.connect can fail
ConnectRaises(st, ok) == ~st.is_connected /\ ~ok

\* the connection a connect() call opened (0: none)
Opened(st, ok) == IF ~st.is_connected /\ ok THEN st.conn_count + 1 ELSE 0

\* disconnect() (lines 193-196)
disconnect(st) ==
  IF ~st.is_connected
    THEN st
    ELSE [st EXCEPT !.open_conns = @ \ {st.connection}, !.is_connected = FALSE]

\* a call of connect() by the handler's user
Connect ==
  /\ BeginOp("connect")
  /\ \E ok \in BOOLEAN :
       /\ is_connected => ok
       /\ SetHandlerState(connect(HandlerState, ok))
       /\ own_conn' = Opened(HandlerState, ok)
       /\ response' = IF ok THEN "returned" ELSE "raised"
       /\ h_exc' = IF ok THEN "none" ELSE "connect"
  /\ UNCHANGED <<broken_conns, autocommit, h_pc, query, params, need_to_close,
                 qs_remaining, fetch_size>>
  /\ UNCHANGED <<subVars, dbVars, dataVars>>

\* a call of disconnect() by the handler's user
Disconnect ==
  /\ BeginOp("disconnect")
  /\ SetHandlerState(disconnect(HandlerState))
  /\ response' = "returned"
  /\ own_conn' = 0
  /\ h_exc' = "none"
  /\ UNCHANGED <<broken_conns, autocommit, h_pc, query, params, need_to_close,
                 qs_remaining, fetch_size>>
  /\ UNCHANGED <<subVars, dbVars, dataVars>>

\* check_connection() (lines 205-223).  connect() or the test statement
\* 'select 1' may raise psycopg.Error, which is caught; the statement raises
\* when the session is gone, which may happen at any moment, or when the
\* server cancels it (statement_timeout, pg_cancel_backend) and the session
\* lives on.
CheckConnection ==
  /\ BeginOp("check_connection")
  /\ need_to_close' = NeedToClose
  /\ h_exc' = "none"
  /\ \/ \* connect() raises
        /\ ~is_connected
        /\ SetHandlerState(connect(HandlerState, FALSE))
        /\ own_conn' = 0
        /\ response' = "failure"
        /\ UNCHANGED broken_conns
     \/ \* 'select 1' raises: not response.success and self.is_connected,
        \* so is_connected = False and the connection is not closed
        /\ LET st == connect(HandlerState, TRUE)
           IN  /\ SetHandlerState([st EXCEPT !.is_connected = FALSE])
               /\ \E session_lost \in BOOLEAN :
                    broken_conns' = IF session_lost
                                      THEN broken_conns \cup {st.connection}
                                      ELSE broken_conns
        /\ own_conn' = Opened(HandlerState, TRUE)
        /\ response' = "failure"
     \/ \* success: the connection is closed again if this call opened it
        /\ LET st == connect(HandlerState, TRUE)
           IN  /\ st.connection \notin broken_conns
               /\ SetHandlerState(IF NeedToClose THEN disconnect(st) ELSE st)
        /\ own_conn' = Opened(HandlerState, TRUE)
        /\ response' = "success"
        /\ UNCHANGED broken_conns
  /\ UNCHANGED <<autocommit, h_pc, query, params, qs_remaining, fetch_size>>
  /\ UNCHANGED <<subVars, dbVars, dataVars>>

(***************************************************************************)
(* Statement execution on the handler's connection.                        *)
(***************************************************************************)
\* times cur.execute / cur.executemany has to run the statement (lines
\* 279-282, 318-321): once without params, once per parameter row with them
ParamRows == IF params = NoParams THEN 1 ELSE params

\* n runs of the statement succeeded and, unless ok, the next one raised.
\* Nothing runs on a broken connection; the server rejects an invalid
\* statement; any other statement may fail at run time (a constraint, a lock).
StatementRuns(n, ok) ==
  /\ n \in 0..ParamRows
  /\ ok <=> n = ParamRows
  /\ connection \in broken_conns => n = 0
  /\ query = "invalid" => n = 0

\* the effects of n successful runs of the statement, the whole statement
\* having succeeded (ok) or not: a statement that changes rows leaves them
\* pending in the transaction psycopg opened.  On an autocommit connection
\* they are committed at once; executemany runs as one pipeline there, whose
\* implicit transaction the server aborts when a run fails.
EffectsAfter(n, ok) ==
  IF n > 0 /\ query \in {"command", "returning"}
    THEN IF autocommit
           THEN IF params # NoParams /\ ~ok THEN "none" ELSE "committed"
           ELSE "pending"
    ELSE "none"

\* line 283 / line 323: the cursor holds a result with rows.  executemany
\* keeps no result (cur.pgresult is None).
HasResultSet == params = NoParams /\ query \in {"select", "returning"}

\* connection.commit() succeeds: the pending effects are committed
CommitEffects(e) == IF e = "pending" THEN "committed" ELSE e

\* connection.rollback() succeeds, or the server aborted the transaction:
\* the pending effects are discarded
RollbackEffects(e) == IF e = "pending" THEN "rolledback" ELSE e

\* connection.commit() and connection.rollback() raise on a broken connection;
\* on an autocommit connection they send nothing while the driver sees the
\* connection idle, so they may also return
EndMayReturn == connection \notin broken_conns \/ autocommit
EndMayRaise == connection \in broken_conns

(***************************************************************************)
(* native_query (lines 274-301), statement by statement.                   *)
(***************************************************************************)
\* lines 274-277: need_to_close, connect(), connection.cursor().  An
\* exception of connect() or of cursor() (the driver knows the connection is
\* gone) is raised to the caller.
NativeQueryBegin(q, p) ==
  /\ BeginOp("native_query")
  /\ query' = q
  /\ params' = p
  /\ need_to_close' = NeedToClose
  /\ \E ok \in BOOLEAN :
       /\ is_connected => ok
       /\ SetHandlerState(connect(HandlerState, ok))
       /\ own_conn' = Opened(HandlerState, ok)
       /\ \/ /\ ConnectRaises(HandlerState, ok)
             /\ response' = "raised"
             /\ h_exc' = "connect"
             /\ h_pc' = "idle"
          \/ /\ ok
             /\ connect(HandlerState, ok).connection \in broken_conns
             /\ response' = "raised"
             /\ h_exc' = "cursor"
             /\ h_pc' = "idle"
          \/ /\ ok
             /\ response' = "none"
             /\ h_exc' = "none"
             /\ h_pc' = "nq_execute"
  /\ UNCHANGED <<broken_conns, autocommit, qs_remaining, fetch_size>>
  /\ UNCHANGED <<subVars, dbVars, dataVars>>

\* lines 279-284: executemany or execute; without a result set the response
\* is OK
NativeQueryExecute ==
  /\ h_pc = "nq_execute"
  /\ \E n \in 0..ParamRows, ok \in BOOLEAN :
       /\ StatementRuns(n, ok)
       /\ executed' = n
       /\ effects' = EffectsAfter(n, ok)
       /\ IF ~ok
            THEN h_pc' = "nq_rollback" /\ UNCHANGED response
            ELSE IF HasResultSet
              THEN h_pc' = "nq_fetch" /\ UNCHANGED response
              ELSE h_pc' = "nq_commit" /\ response' = "OK"
  /\ UNCHANGED <<is_connected, connection, open_conns, broken_conns, conn_count,
                 autocommit, h_op, query, params, need_to_close, h_exc,
                 in_flight, commits, rollbacks, before_connected, before_conn,
                 own_conn, qs_remaining, fetch_size, qs_yields, calls>>
  /\ UNCHANGED <<subVars, dbVars, dataVars>>

\* lines 286-287: cur.fetchall() and _make_table_response; either may raise
\* (a value the driver cannot load, a result without columns)
NativeQueryFetch ==
  /\ h_pc = "nq_fetch"
  /\ \/ h_pc' = "nq_commit" /\ response' = "TABLE"
     \/ h_pc' = "nq_rollback" /\ UNCHANGED response
  /\ UNCHANGED <<is_connected, connection, open_conns, broken_conns, conn_count,
                 autocommit, h_op, query, params, need_to_close, h_exc,
                 in_flight, executed, effects, commits, rollbacks,
                 before_connected, before_conn, own_conn, qs_remaining,
                 fetch_size, qs_yields, calls>>
  /\ UNCHANGED <<subVars, dbVars, dataVars>>

\* line 288: connection.commit(); the server may refuse to commit pending
\* changes (a deferred constraint, a serialization failure) and aborts the
\* transaction
NativeQueryCommit ==
  /\ h_pc = "nq_commit"
  /\ \/ /\ EndMayReturn
        /\ commits' = commits + 1
        /\ effects' = CommitEffects(effects)
        /\ h_pc' = "nq_finish"
     \/ /\ EndMayRaise
        /\ h_pc' = "nq_rollback"
        /\ UNCHANGED <<commits, effects>>
     \/ /\ connection \notin broken_conns
        /\ effects = "pending"
        /\ effects' = RollbackEffects(effects)
        /\ h_pc' = "nq_rollback"
        /\ UNCHANGED commits
  /\ UNCHANGED <<is_connected, connection, open_conns, broken_conns, conn_count,
                 autocommit, h_op, query, params, need_to_close, response, h_exc,
                 in_flight, executed, rollbacks, before_connected, before_conn,
                 own_conn, qs_remaining, fetch_size, qs_yields, calls>>
  /\ UNCHANGED <<subVars, dbVars, dataVars>>

\* the except block without connection.rollback()
NativeQueryRollbackSkipped ==
  /\ h_pc = "nq_rollback"
  /\ response' = "ERROR"
  /\ h_pc' = "nq_finish"
  /\ UNCHANGED <<is_connected, connection, open_conns, broken_conns, conn_count,
                 autocommit, h_op, query, params, need_to_close, h_exc,
                 in_flight, executed, effects, commits, rollbacks,
                 before_connected, before_conn, own_conn, qs_remaining,
                 fetch_size, qs_yields, calls>>
  /\ UNCHANGED <<subVars, dbVars, dataVars>>

\* lines 289-296: except Exception: the ERROR response, then
\* connection.rollback(), whose own exception is raised to the caller
NativeQueryRollback ==
  /\ h_pc = "nq_rollback"
  /\ \/ /\ EndMayReturn
        /\ rollbacks' = rollbacks + 1
        /\ effects' = RollbackEffects(effects)
        /\ response' = "ERROR"
        /\ h_pc' = "nq_finish"
        /\ UNCHANGED h_exc
     \/ /\ EndMayRaise
        /\ response' = "raised"
        /\ h_exc' = "rollback"
        /\ h_pc' = "idle"
        /\ UNCHANGED <<rollbacks, effects>>
  /\ UNCHANGED <<is_connected, connection, open_conns, broken_conns, conn_count,
                 autocommit, h_op, query, params, need_to_close, in_flight,
                 executed, commits, before_connected, before_conn, own_conn,
                 qs_remaining, fetch_size, qs_yields, calls>>
  /\ UNCHANGED <<subVars, dbVars, dataVars>>

\* lines 298-301: disconnect() if this call opened the connection, return
NativeQueryFinish ==
  /\ h_pc = "nq_finish"
  /\ SetHandlerState(IF need_to_close THEN disconnect(HandlerState) ELSE HandlerState)
  /\ h_pc' = "idle"
  /\ UNCHANGED <<broken_conns, autocommit, h_op, query, params, need_to_close,
                 response, h_exc, in_flight, executed, effects, commits,
                 rollbacks, before_connected, before_conn, own_conn,
                 qs_remaining, fetch_size, qs_yields, calls>>
  /\ UNCHANGED <<subVars, dbVars, dataVars>>

(***************************************************************************)
(* query_stream (lines 311-339): a generator.  It runs when the consumer   *)
(* asks for the next batch and is suspended at `yield`.  While it is       *)
(* suspended the consumer either resumes it or abandons it (close(), or    *)
(* the garbage collector), which raises GeneratorExit at the yield.        *)
(***************************************************************************)
\* lines 311-316, at the first next(): need_to_close, connect(), cursor()
QueryStreamBegin(q, p, size, rows) ==
  /\ BeginOp("query_stream")
  /\ query' = q
  /\ params' = p
  /\ fetch_size' = size
  /\ rows > 0 => q \in {"select", "returning"} /\ p = NoParams
  /\ qs_remaining' = rows
  /\ need_to_close' = NeedToClose
  /\ \E ok \in BOOLEAN :
       /\ is_connected => ok
       /\ SetHandlerState(connect(HandlerState, ok))
       /\ own_conn' = Opened(HandlerState, ok)
       /\ \/ /\ ConnectRaises(HandlerState, ok)
             /\ response' = "raised"
             /\ h_exc' = "connect"
             /\ h_pc' = "idle"
          \/ /\ ok
             /\ connect(HandlerState, ok).connection \in broken_conns
             /\ response' = "raised"
             /\ h_exc' = "cursor"
             /\ h_pc' = "idle"
          \/ /\ ok
             /\ response' = "none"
             /\ h_exc' = "none"
             /\ h_pc' = "qs_execute"
  /\ UNCHANGED <<broken_conns, autocommit>>
  /\ UNCHANGED <<subVars, dbVars, dataVars>>

\* lines 318-323: executemany or execute; an exception passes through the
\* finally block
QueryStreamExecute ==
  /\ h_pc = "qs_execute"
  /\ \E n \in 0..ParamRows, ok \in BOOLEAN :
       /\ StatementRuns(n, ok)
       /\ executed' = n
       /\ effects' = EffectsAfter(n, ok)
       /\ IF ~ok
            THEN /\ h_pc' = "qs_rollback"
                 /\ in_flight' = TRUE
                 /\ h_exc' = "execute"
            ELSE /\ h_pc' = IF HasResultSet THEN "qs_fetch" ELSE "qs_commit"
                 /\ UNCHANGED <<in_flight, h_exc>>
  /\ UNCHANGED <<is_connected, connection, open_conns, broken_conns, conn_count,
                 autocommit, h_op, query, params, need_to_close, response,
                 commits, rollbacks, before_connected, before_conn, own_conn,
                 qs_remaining, fetch_size, qs_yields, calls>>
  /\ UNCHANGED <<subVars, dbVars, dataVars>>

\* the rows cur.fetchmany(fetch_size) returns (line 325)
FetchMany == IF qs_remaining < fetch_size THEN qs_remaining ELSE fetch_size

\* lines 324-333: fetch a batch; an empty one ends the loop, any other is cast
\* and yielded.  fetchmany and the DataFrame construction may raise.
QueryStreamFetch ==
  /\ h_pc = "qs_fetch"
  /\ \/ /\ FetchMany = 0
        /\ h_pc' = "qs_commit"
        /\ UNCHANGED <<qs_remaining, qs_yields, in_flight, h_exc>>
     \/ /\ FetchMany > 0
        /\ qs_remaining' = qs_remaining - FetchMany
        /\ qs_yields' = qs_yields + 1
        /\ h_pc' = "qs_suspended"
        /\ UNCHANGED <<in_flight, h_exc>>
     \/ /\ h_pc' = "qs_rollback"
        /\ in_flight' = TRUE
        /\ h_exc' = "fetch"
        /\ UNCHANGED <<qs_remaining, qs_yields>>
  /\ UNCHANGED <<is_connected, connection, open_conns, broken_conns, conn_count,
                 autocommit, h_op, query, params, need_to_close, response,
                 executed, effects, commits, rollbacks, before_connected,
                 before_conn, own_conn, fetch_size, calls>>
  /\ UNCHANGED <<subVars, dbVars, dataVars>>

\* the consumer asks for the next batch: the generator resumes after line 333
QueryStreamNext ==
  /\ h_pc = "qs_suspended"
  /\ h_pc' = "qs_fetch"
  /\ UNCHANGED <<is_connected, connection, open_conns, broken_conns, conn_count,
                 autocommit, h_op, query, params, need_to_close, response, h_exc,
                 in_flight, executed, effects, commits, rollbacks,
                 before_connected, before_conn, own_conn, qs_remaining,
                 fetch_size, qs_yields, calls>>
  /\ UNCHANGED <<subVars, dbVars, dataVars>>

\* the consumer abandons the sequence: GeneratorExit is raised at line 333 and
\* passes through the finally block
QueryStreamAbandon ==
  /\ h_pc = "qs_suspended"
  /\ h_pc' = "qs_rollback"
  /\ in_flight' = TRUE
  /\ h_exc' = "generator_exit"
  /\ UNCHANGED <<is_connected, connection, open_conns, broken_conns, conn_count,
                 autocommit, h_op, query, params, need_to_close, response,
                 executed, effects, commits, rollbacks, before_connected,
                 before_conn, own_conn, qs_remaining, fetch_size, qs_yields,
                 calls>>
  /\ UNCHANGED <<subVars, dbVars, dataVars>>

\* line 334: connection.commit() after the last batch
QueryStreamCommit ==
  /\ h_pc = "qs_commit"
  /\ \/ /\ EndMayReturn
        /\ commits' = commits + 1
        /\ effects' = CommitEffects(effects)
        /\ UNCHANGED <<in_flight, h_exc>>
     \/ /\ EndMayRaise
        /\ in_flight' = TRUE
        /\ h_exc' = "commit"
        /\ UNCHANGED <<commits, effects>>
     \/ /\ connection \notin broken_conns
        /\ effects = "pending"
        /\ effects' = RollbackEffects(effects)
        /\ in_flight' = TRUE
        /\ h_exc' = "commit"
        /\ UNCHANGED commits
  /\ h_pc' = "qs_rollback"
  /\ UNCHANGED <<is_connected, connection, open_conns, broken_conns, conn_count,
                 autocommit, h_op, query, params, need_to_close, response,
                 executed, rollbacks, before_connected, before_conn, own_conn,
                 qs_remaining, fetch_size, qs_yields, calls>>
  /\ UNCHANGED <<subVars, dbVars, dataVars>>

\* lines 335-336: finally: connection.rollback().  An exception in flight
\* (or the one rollback raises) then leaves the generator: lines 338-339 are
\* not reached.
QueryStreamRollback ==
  /\ h_pc = "qs_rollback"
  /\ \/ /\ EndMayReturn
        /\ rollbacks' = rollbacks + 1
        /\ effects' = RollbackEffects(effects)
        /\ IF in_flight
             THEN /\ response' = IF h_exc = "generator_exit" THEN "closed" ELSE "raised"
                  /\ h_pc' = "idle"
             ELSE /\ h_pc' = "qs_finish"
                  /\ UNCHANGED response
        /\ UNCHANGED h_exc
     \/ /\ EndMayRaise
        /\ response' = "raised"
        /\ h_exc' = "rollback"
        /\ h_pc' = "idle"
        /\ UNCHANGED <<rollbacks, effects>>
  /\ UNCHANGED <<is_connected, connection, open_conns, broken_conns, conn_count,
                 autocommit, h_op, query, params, need_to_close, in_flight,
                 executed, commits, before_connected, before_conn, own_conn,
                 qs_remaining, fetch_size, qs_yields, calls>>
  /\ UNCHANGED <<subVars, dbVars, dataVars>>

\* lines 338-339: disconnect() if this call opened the connection; the
\* generator is exhausted
QueryStreamFinish ==
  /\ h_pc = "qs_finish"
  /\ SetHandlerState(IF need_to_close THEN disconnect(HandlerState) ELSE HandlerState)
  /\ response' = "exhausted"
  /\ h_pc' = "idle"
  /\ UNCHANGED <<broken_conns, autocommit, h_op, query, params, need_to_close,
                 h_exc, in_flight, executed, effects, commits, rollbacks,
                 before_connected, before_conn, own_conn, qs_remaining,
                 fetch_size, qs_yields, calls>>
  /\ UNCHANGED <<subVars, dbVars, dataVars>>

\* the server or the network ends the session of the handler's connection
BreakHandlerConnection ==
  /\ h_pc # "idle" \/ calls < MaxCalls
  /\ connection \in open_conns
  /\ connection \notin broken_conns
  /\ broken_conns' = broken_conns \cup {connection}
  /\ UNCHANGED <<is_connected, connection, open_conns, conn_count, autocommit,
                 h_pc, h_op, query, params, need_to_close, response, h_exc,
                 in_flight, executed, effects, commits, rollbacks,
                 before_connected, before_conn, own_conn, qs_remaining,
                 fetch_size, qs_yields, calls>>
  /\ UNCHANGED <<subVars, dbVars, dataVars>>

(***************************************************************************)
(* Type mapping and materialization of results: _map_type,                 *)
(* _make_table_response, and the batches of query_stream with              *)
(* _cast_dtypes.  A string is the sequence of its characters.              *)
(***************************************************************************)
UpperCase ==
  <<"A", "B", "C", "D", "E", "F", "G", "H", "I", "J", "K", "L", "M",
    "N", "O", "P", "Q", "R", "S", "T", "U", "V", "W", "X", "Y", "Z">>
LowerCase ==
  <<"a", "b", "c", "d", "e", "f", "g", "h", "i", "j", "k", "l", "m",
    "n", "o", "p", "q", "r", "s", "t", "u", "v", "w", "x", "y", "z">>

\* str.lower() on one character, and its inverse str.upper()
LowerChar(c) ==
  IF \E i \in DOMAIN UpperCase : UpperCase[i] = c
    THEN LowerCase[CHOOSE i \in DOMAIN UpperCase : UpperCase[i] = c]
    ELSE c
UpperChar(c) ==
  IF \E i \in DOMAIN LowerCase : LowerCase[i] = c
    THEN UpperCase[CHOOSE i \in DOMAIN LowerCase : LowerCase[i] = c]
    ELSE c

\* a value of type str | None
None == [is_none |-> TRUE, chars |-> <<>>]
Str(chars) == [is_none |-> FALSE, chars |-> chars]

\* internal_type_name.lower() (line 45)
Lower(name) == Str([i \in DOMAIN name.chars |-> LowerChar(name.chars[i])])

\* the spellings of a name the model feeds to _map_type
Upper(name) == Str([i \in DOMAIN name.chars |-> UpperChar(name.chars[i])])
Capitalize(name) ==
  Str([i \in DOMAIN name.chars |->
         IF i = 1 THEN UpperChar(name.chars[i]) ELSE name.chars[i]])

\* fallback_type (line 40)
fallback_type == "VARCHAR"

\* types_map (lines 46-61), in the order of the dict
types_map == <<
  [db_types_list |-> <<
        Str(<<"s", "m", "a", "l", "l", "i", "n", "t">>),
        Str(<<"s", "m", "a", "l", "l", "s", "e", "r", "i", "a", "l">>)>>,
   mysql_data_type |-> "SMALLINT"],
  [db_types_list |-> <<
        Str(<<"i", "n", "t", "e", "g", "e", "r">>),
        Str(<<"i", "n", "t">>),
        Str(<<"s", "e", "r", "i", "a", "l">>)>>,
   mysql_data_type |-> "INT"],
  [db_types_list |-> <<
        Str(<<"b", "i", "g", "i", "n", "t">>),
        Str(<<"b", "i", "g", "s", "e", "r", "i", "a", "l">>)>>,
   mysql_data_type |-> "BIGINT"],
  [db_types_list |-> <<
        Str(<<"r", "e", "a", "l">>),
        Str(<<"f", "l", "o", "a", "t">>)>>,
   mysql_data_type |-> "FLOAT"],
  [db_types_list |-> <<
        Str(<<"n", "u", "m", "e", "r", "i", "c">>),
        Str(<<"d", "e", "c", "i", "m", "a", "l">>)>>,
   mysql_data_type |-> "DECIMAL"],
  [db_types_list |-> <<
        Str(<<"d", "o", "u", "b", "l", "e", " ", "p", "r", "e", "c", "i", "s", "i", "o", "n">>)>>,
   mysql_data_type |-> "DOUBLE"],
  [db_types_list |-> <<
        Str(<<"c", "h", "a", "r", "a", "c", "t", "e", "r", " ", "v", "a", "r", "y", "i", "n", "g">>),
        Str(<<"v", "a", "r", "c", "h", "a", "r">>)>>,
   mysql_data_type |-> "VARCHAR"],
  [db_types_list |-> <<
        Str(<<"m", "o", "n", "e", "y">>),
        Str(<<"c", "h", "a", "r", "a", "c", "t", "e", "r">>),
        Str(<<"c", "h", "a", "r">>),
        Str(<<"b", "p", "c", "h", "a", "r">>),
        Str(<<"b", "p", "c", "h", "a", "r">>),
        Str(<<"t", "e", "x", "t">>)>>,
   mysql_data_type |-> "TEXT"],
  [db_types_list |-> <<
        Str(<<"t", "i", "m", "e", "s", "t", "a", "m", "p">>),
        Str(<<"t", "i", "m", "e", "s", "t", "a", "m", "p", " ", "w", "i", "t", "h", "o", "u", "t", " ", "t", "i", "m", "e", " ", "z", "o", "n", "e">>),
        Str(<<"t", "i", "m", "e", "s", "t", "a", "m", "p", " ", "w", "i", "t", "h", " ", "t", "i", "m", "e", " ", "z", "o", "n", "e">>)>>,
   mysql_data_type |-> "DATETIME"],
  [db_types_list |-> <<
        Str(<<"d", "a", "t", "e">>)>>,
   mysql_data_type |-> "DATE"],
  [db_types_list |-> <<
        Str(<<"t", "i", "m", "e">>),
        Str(<<"t", "i", "m", "e", " ", "w", "i", "t", "h", "o", "u", "t", " ", "t", "i", "m", "e", " ", "z", "o", "n", "e">>),
        Str(<<"t", "i", "m", "e", " ", "w", "i", "t", "h", " ", "t", "i", "m", "e", " ", "z", "o", "n", "e">>)>>,
   mysql_data_type |-> "TIME"],
  [db_types_list |-> <<
        Str(<<"b", "o", "o", "l", "e", "a", "n">>)>>,
   mysql_data_type |-> "BOOL"],
  [db_types_list |-> <<
        Str(<<"b", "y", "t", "e", "a">>)>>,
   mysql_data_type |-> "BINARY"]>>

\* _map_type without the lower-casing of line 45
MapTypeCaseSensitive(name) ==
  IF name.is_none
    THEN fallback_type
    ELSE LET hits == {i \in DOMAIN types_map :
                        \E j \in DOMAIN types_map[i].db_types_list :
                          types_map[i].db_types_list[j] = name}
         IN  IF hits = {}
               THEN fallback_type
               ELSE types_map[CHOOSE i \in hits : \A k \in hits : i <= k].mysql_data_type

\* _map_type (lines 31-68): None gives the fallback; otherwise the first entry
\* of types_map whose tuple holds the lower-cased name, or the fallback
_map_type(name) ==
  IF name.is_none
    THEN fallback_type
    ELSE LET lowered == Lower(name)
             hits == {i \in DOMAIN types_map :
                        \E j \in DOMAIN types_map[i].db_types_list :
                          types_map[i].db_types_list[j] = lowered}
         IN  IF hits = {}
               THEN fallback_type
               ELSE types_map[CHOOSE i \in hits : \A k \in hits : i <= k].mysql_data_type

\* every name of types_map
MappedNames ==
  UNION {SeqToSet(types_map[i].db_types_list) : i \in DOMAIN types_map}

\* names that types_map does not hold: a type it lacks, the empty string, an
\* array type, and a part of a mapped name
UnmappedNames ==
  {Str(<<"j", "s", "o", "n">>), Str(<<>>),
   Str(<<"i", "n", "t", "e", "g", "e", "r", "[", "]">>),
   Str(<<"i", "n">>), Str(<<" ", "i", "n", "t">>)}

\* the arguments _map_type is applied to
TypeNameInputs ==
  {None} \cup UnmappedNames
    \cup UNION {{n, Upper(n), Capitalize(n)} : n \in MappedNames \cup UnmappedNames}

\* the Postgres types of the model's column, by TypeInfo.name; "unknown" is a
\* type code the driver's registry does not hold (pg_types.get gives None)
PgTypes ==
  {"int2", "int4", "int8", "numeric", "float4", "float8", "bool", "text", "unknown"}

\* pg_type_info.regtype, or None (lines 84-87)
Regtype(pg_type) ==
  CASE pg_type = "int2" -> Str(<<"s", "m", "a", "l", "l", "i", "n", "t">>)
    [] pg_type = "int4" -> Str(<<"i", "n", "t", "e", "g", "e", "r">>)
    [] pg_type = "int8" -> Str(<<"b", "i", "g", "i", "n", "t">>)
    [] pg_type = "numeric" -> Str(<<"n", "u", "m", "e", "r", "i", "c">>)
    [] pg_type = "float4" -> Str(<<"r", "e", "a", "l">>)
    [] pg_type = "float8" -> Str(<<"d", "o", "u", "b", "l", "e", " ", "p", "r", "e", "c", "i", "s", "i", "o", "n">>)
    [] pg_type = "bool" -> Str(<<"b", "o", "o", "l", "e", "a", "n">>)
    [] pg_type = "text" -> Str(<<"t", "e", "x", "t">>)
    [] OTHER -> None

\* the Python class of the values the driver loads for a type
PyClass(pg_type) ==
  CASE pg_type \in {"int2", "int4", "int8"} -> "int"
    [] pg_type = "numeric" -> "Decimal"
    [] pg_type \in {"float4", "float8"} -> "float"
    [] pg_type = "bool" -> "bool"
    [] OTHER -> "str"

\* the values of one column of a result: Null is SQL NULL (Python None)
Cells == Vals \cup {Null}
Results == UNION {[1..n -> Cells] : n \in 0..MaxRows}

\* a cell of a pandas column: absent (None, NaN or pd.NA), or a value
NA == <<>>
Value(v) == <<v>>
ToCells(values) ==
  [i \in DOMAIN values |-> IF values[i] = Null THEN NA ELSE Value(values[i])]

\* the dtype pandas infers for a column built from Python values without a
\* dtype: a column of None only stays object, integers with a None among
\* them become float64 with NaN
InferDtype(values, class) ==
  LET nulls == {i \in DOMAIN values : values[i] = Null}
  IN  CASE nulls = DOMAIN values -> "object"
        [] class = "int" -> IF nulls = {} THEN "int64" ELSE "float64"
        [] class = "float" -> "float64"
        [] class = "bool" -> IF nulls = {} THEN "bool" ELSE "object"
        [] OTHER -> "object"

\* pd.Series(values, dtype=dtype) (line 102): the nullable dtypes keep None
\* as pd.NA, a numpy integer dtype cannot hold None, and no dtype infers one
Series(values, dtype, class) ==
  CASE dtype = "Int64" ->
         [raised |-> class \notin {"int", "bool"}, dtype |-> dtype,
          cells |-> ToCells(values)]
    [] dtype = "boolean" ->
         [raised |-> class \notin {"int", "bool"}, dtype |-> dtype,
          cells |-> ToCells(values)]
    [] dtype = "int64" ->
         [raised |-> class \notin {"int", "bool"}
                       \/ \E i \in DOMAIN values : values[i] = Null,
          dtype |-> dtype, cells |-> ToCells(values)]
    [] OTHER ->
         [raised |-> FALSE, dtype |-> InferDtype(values, class),
          cells |-> ToCells(values)]

\* lines 94-101 with the numpy dtype in place of the nullable one
ExpectedDtypeNumpy(type) ==
  CASE type \in {"SMALLINT", "INT", "MEDIUMINT", "BIGINT", "TINYINT"} -> "int64"
    [] type \in {"BOOL", "BOOLEAN"} -> "boolean"
    [] OTHER -> "none"

\* expected_dtype (lines 94-101)
ExpectedDtype(type) ==
  CASE type \in {"SMALLINT", "INT", "MEDIUMINT", "BIGINT", "TINYINT"} -> "Int64"
    [] type \in {"BOOL", "BOOLEAN"} -> "boolean"
    [] OTHER -> "none"

\* the response before any function was applied
NoResponse ==
  [raised |-> FALSE, dtype |-> "none", cells |-> <<>>, mysql_type |-> "unset"]

\* _make_table_response (lines 71-111) for a result of one column
_make_table_response(values, pg_type) ==
  LET type == _map_type(Regtype(pg_type))
      series == Series(values, ExpectedDtype(type), PyClass(pg_type))
  IN  [raised |-> series.raised, dtype |-> series.dtype, cells |-> series.cells,
       mysql_type |-> type]

\* types_map of _cast_dtypes (lines 241-248)
cast_types_map(pg_type) ==
  CASE pg_type = "int2" -> "int16"
    [] pg_type = "int4" -> "int32"
    [] pg_type = "int8" -> "int64"
    [] pg_type = "numeric" -> "float64"
    [] pg_type = "float4" -> "float32"
    [] pg_type = "float8" -> "float64"
    [] OTHER -> "none"

\* col.fillna(0) (line 256)
fillna(cells) == [i \in DOMAIN cells |-> IF cells[i] = NA THEN Value(0) ELSE cells[i]]

\* _cast_dtypes (lines 225-261) on the column of one batch: an object column
\* of a numeric type has its absent values replaced by 0 and is cast
_cast_dtypes(col, pg_type) ==
  IF col.dtype = "object" /\ cast_types_map(pg_type) # "none"
    THEN [dtype |-> cast_types_map(pg_type), cells |-> fillna(col.cells)]
    ELSE col

\* DataFrame(result, columns=...) (lines 328-331) for one batch
DataFrame(values, pg_type) ==
  [dtype |-> InferDtype(values, PyClass(pg_type)), cells |-> ToCells(values)]

\* lines 324-333: the data frames yielded for the rows not fetched yet:
\* fetchmany(fetch_size) until it returns no row
RECURSIVE StreamBatches(_, _, _)
StreamBatches(values, size, pg_type) ==
  IF values = <<>>
    THEN <<>>
    ELSE LET n == IF Len(values) < size THEN Len(values) ELSE size
             df == DataFrame(SubSeq(values, 1, n), pg_type)
         IN  <<_cast_dtypes(df, pg_type)>>
               \o StreamBatches(SubSeq(values, n + 1, Len(values)), size, pg_type)

\* the three functions, each applied once to the inputs of the behaviour
MapType ==
  /\ "_map_type" \notin applied
  /\ mysql_type' = _map_type(internal_type_name)
  /\ applied' = applied \cup {"_map_type"}
  /\ UNCHANGED <<internal_type_name, description, result, batch_size,
                 table_response, batches>>
  /\ UNCHANGED <<subVars, dbVars, handlerVars>>

MakeTableResponse ==
  /\ "_make_table_response" \notin applied
  /\ table_response' = _make_table_response(result, description)
  /\ applied' = applied \cup {"_make_table_response"}
  /\ UNCHANGED <<internal_type_name, mysql_type, description, result,
                 batch_size, batches>>
  /\ UNCHANGED <<subVars, dbVars, handlerVars>>

QueryStreamBatches ==
  /\ "query_stream" \notin applied
  /\ batches' = StreamBatches(result, batch_size, description)
  /\ applied' = applied \cup {"query_stream"}
  /\ UNCHANGED <<internal_type_name, mysql_type, description, result,
                 batch_size, table_response>>
  /\ UNCHANGED <<subVars, dbVars, handlerVars>>

\* no result is materialized: the state of the data part in Spec and SpecQuery
DataIdle ==
  /\ internal_type_name = None
  /\ mysql_type = "unset"
  /\ description = "text"
  /\ result = <<>>
  /\ batch_size = 1
  /\ table_response = NoResponse
  /\ batches = <<>>
  /\ applied = {}

(***************************************************************************)
(* Specifications.                                                         *)
(***************************************************************************)
vars == <<subVars, dbVars, handlerVars, dataVars>>

\* the handler after __init__ (lines 121-131), with the given configuration
HandlerInit ==
  /\ is_connected = FALSE
  /\ connection = 0
  /\ open_conns = {}
  /\ broken_conns = {}
  /\ conn_count = 0
  /\ h_pc = "idle"
  /\ h_op = "none"
  /\ query = "select"
  /\ params = NoParams
  /\ need_to_close = FALSE
  /\ response = "none"
  /\ h_exc = "none"
  /\ in_flight = FALSE
  /\ executed = 0
  /\ effects = "none"
  /\ commits = 0
  /\ rollbacks = 0
  /\ before_connected = FALSE
  /\ before_conn = 0
  /\ own_conn = 0
  /\ qs_remaining = 0
  /\ fetch_size = 1
  /\ qs_yields = 0
  /\ calls = 0

\* one subscribe() call, for every table_name and columns of the model
Init ==
  /\ SubscribeInit({1})
  /\ HandlerInit
  /\ autocommit = FALSE
  /\ DataIdle

Next ==
  \/ \E s \in Subscribers : SubscribeStep(s)
  \/ SubscribeEnv

Spec == Init /\ [][Next]_vars

\* subscribe() on an existing table, without or with one watched column.  It
\* runs in a thread of its own that is never starved: the sleep of line 544
\* ends and every statement returns or raises.
FairInit ==
  /\ Init
  /\ table_name[1] = "t"
  /\ columns[1] \in {<<>>, <<"a">>}

SpecFair ==
  FairInit /\ [][Next]_vars /\ \A s \in Subscribers : WF_vars(SubscribeStep(s))

\* two subscribe() calls at the same time, on the same table with the same
\* watched column: both compute the same name
TwoInit ==
  /\ SubscribeInit({1, 2})
  /\ \A s \in Subscribers : table_name[s] = "t" /\ columns[s] = <<"a">>
  /\ db_row = [c \in ColumnNames |-> 0]
  /\ HandlerInit
  /\ autocommit = FALSE
  /\ DataIdle

\* another session updates column a of the row, to the same or another value
UpdateWatchedColumn(v) == RowChange([db_row EXCEPT !["a"] = v])

\* the two calls, their callers' stop_event, and the other sessions' updates
\* of the watched column
TwoNext ==
  \/ \E s \in Subscribers : SubscribeStep(s)
  \/ \E s \in Subscribers : SetStop(s)
  \/ \E v \in Vals : UpdateWatchedColumn(v)

SpecTwo == TwoInit /\ [][TwoNext]_vars

\* the operations of one handler, called one after the other, for both
\* settings of connection_args['autocommit']
QueryInit ==
  /\ SubscribeInit({})
  /\ db_row = NullRow
  /\ HandlerInit
  /\ autocommit \in BOOLEAN
  /\ DataIdle

QueryNext ==
  \/ Connect
  \/ Disconnect
  \/ CheckConnection
  \/ \E q \in QueryKinds, p \in {NoParams} \cup (0..MaxParams) :
       NativeQueryBegin(q, p)
  \/ NativeQueryExecute
  \/ NativeQueryFetch
  \/ NativeQueryCommit
  \/ NativeQueryRollback
  \/ NativeQueryFinish
  \/ \E q \in QueryKinds, p \in {NoParams} \cup (0..MaxParams),
        size \in 1..MaxFetch, rows \in 0..MaxRows :
       QueryStreamBegin(q, p, size, rows)
  \/ QueryStreamExecute
  \/ QueryStreamFetch
  \/ QueryStreamNext
  \/ QueryStreamAbandon
  \/ QueryStreamCommit
  \/ QueryStreamRollback
  \/ QueryStreamFinish
  \/ BreakHandlerConnection

SpecQuery == QueryInit /\ [][QueryNext]_vars

\* the type names, and the one-column results with each batch size
DataInit ==
  /\ SubscribeInit({})
  /\ db_row = NullRow
  /\ HandlerInit
  /\ autocommit = FALSE
  /\ internal_type_name \in TypeNameInputs
  /\ mysql_type = "unset"
  /\ description \in PgTypes
  /\ result \in Results
  /\ batch_size \in 1..MaxFetch
  /\ internal_type_name # None => description = "text" /\ result = <<>> /\ batch_size = 1
  /\ table_response = NoResponse
  /\ batches = <<>>
  /\ applied = {}

DataNext ==
  \/ MapType
  \/ MakeTableResponse
  \/ QueryStreamBatches

SpecData == DataInit /\ [][DataNext]_vars


(***************************************************************************)
(* Properties of subscribe(), stated for Spec.                              *)
(***************************************************************************)
\* subscribe() has returned or raised
Terminated(s) == sub_pc[s] \in {"returned", "raised"}

\* the trigger, or the function, that subscriber s names is installed
TriggerInstalled(s) == trigger_name[s] \in db_triggers
FunctionInstalled(s) == \E f \in db_functions : f.name = trigger_name[s]

\* the statements of the installation (lines 479-520)
InstallSites ==
  {"probe", "create_function", "create_trigger", "install_commit", "listen"}

ChangesSeenBy(s) ==
  LET Seen(e) == s \in e.armed IN SelectSeq(change_log, Seen)

\* what the claim says of one change: with watched columns W an event is due
\* exactly when the change alters a column of W, and always without.
EventDue(W, e) == W = {} \/ {c \in W : e.new[c] # e.old[c]} # {}

\* the rows the callback is owed for the changes subscriber s has seen
RowsDue(s) ==
  LET Due(e) == EventDue(watched[s], e)
      due == SelectSeq(ChangesSeenBy(s), Due)
  IN  [i \in 1..Len(due) |-> due[i].new]

\* the rows of the well-formed notifications still queued on the connection
RowsQueued(s) ==
  LET WellFormed(n) == n.wellformed
      queued == SelectSeq(inbox[s], WellFormed)
  IN  [i \in 1..Len(queued) |-> JsonLoads(queued[i])]

\* the claim is silent about inserts under a non-empty watched set
OnlyClaimedChanges(s) ==
  \A i \in 1..Len(change_log) :
    s \in change_log[i].armed /\ change_log[i].old = NullRow => watched[s] = {}

NativeQueryReturned ==
  h_op = "native_query" /\ h_pc = "idle" /\ response \in {"OK", "TABLE", "ERROR"}

\* the last call was query_stream and the generator has ended: exhausted,
\* with an exception, or closed by the consumer
QueryStreamEnded ==
  h_op = "query_stream" /\ h_pc = "idle"
    /\ response \in {"exhausted", "raised", "closed"}

\* C7: no error other than a failure to establish the connection leaves
\* native_query: an exception that reaches the caller comes from connect().
C7_OnlyConnectFailurePropagates ==
  h_op = "native_query" /\ response = "raised" => h_exc = "connect"

\* C8: a native_query call that returns leaves is_connected as it was; the
\* connection that existed before is the handler's connection and still
\* open, and a connection the call opened itself is closed.
C8_ConnectedStatePreserved ==
  NativeQueryReturned =>
    /\ is_connected = before_connected
    /\ before_connected => connection = before_conn /\ connection \in open_conns
    /\ own_conn # 0 => own_conn \notin open_conns

\* C8 witness: a call on a handler that was not connected returned ERROR for
\* an invalid statement, after opening and closing its own connection
C8_Witness ==
  /\ NativeQueryReturned
  /\ response = "ERROR"
  /\ query = "invalid"
  /\ ~before_connected
  /\ own_conn # 0
  /\ ~is_connected

\* C9 as stated: a returned OK or TABLE call has committed once and not
\* rolled back; a returned ERROR call has rolled back once, has not
\* committed, and its statement's effects are not committed.
C9_AsStated ==
  NativeQueryReturned =>
    /\ response \in {"OK", "TABLE"} =>
         commits = 1 /\ rollbacks = 0 /\ effects \in {"none", "committed"}
    /\ response = "ERROR" =>
         rollbacks = 1 /\ commits = 0 /\ effects \in {"none", "rolledback"}

\* C9: a returned OK or TABLE call has committed once and not rolled back; a
\* returned ERROR call has rolled back once and not committed, and unless the
\* connection is configured with autocommit its statement's effects are not
\* committed.
C9_TransactionEndedOnce ==
  NativeQueryReturned =>
    /\ response \in {"OK", "TABLE"} =>
         commits = 1 /\ rollbacks = 0 /\ effects \in {"none", "committed"}
    /\ response = "ERROR" =>
         /\ rollbacks = 1
         /\ commits = 0
         /\ ~autocommit => effects \in {"none", "rolledback"}

\* C9 witness: without autocommit a statement changed data, the call then
\* failed, returned ERROR and the change was rolled back
C9_Witness ==
  /\ NativeQueryReturned
  /\ response = "ERROR"
  /\ ~autocommit
  /\ executed > 0
  /\ effects = "rolledback"
  /\ rollbacks = 1

\* C10: when query_stream has ended, in whichever way, the connection it
\* opened itself is closed, and a connection that existed before is still
\* the handler's open connection.
C10_StreamClosesOwnConnection ==
  QueryStreamEnded =>
    /\ own_conn # 0 => own_conn \notin open_conns
    /\ before_connected =>
         is_connected /\ connection = before_conn /\ connection \in open_conns

\* C11: whichever way query_stream ends (exhaustion, error, abandonment), its
\* transaction was ended by the rollback alone: no commit was made and the
\* effects of the streamed statement are not committed (stated for a
\* connection without autocommit, where the call has a transaction to end).
C11_StreamAlwaysRolledBack ==
  QueryStreamEnded /\ ~autocommit => commits = 0 /\ effects # "committed"

(***************************************************************************)
(* Properties of the type mapping and the materialized results, stated for *)
(* SpecData.                                                               *)
(***************************************************************************)
\* ceil(n / b)
Ceil(n, b) == (n + b - 1) \div b

\* the cells of the yielded data frames, concatenated in order
RECURSIVE ConcatCells(_)
ConcatCells(frames) ==
  IF frames = <<>> THEN <<>> ELSE Head(frames).cells \o ConcatCells(Tail(frames))

\* C12: a result of N rows streamed with batch size B gives ceil(N/B) batches
\* of at most B rows each, and the batches concatenated in order hold the
\* same values, NULLs included, as the wholesale materialization.
C12_StreamEqualsWholesale ==
  /\ "query_stream" \in applied
  /\ "_make_table_response" \in applied
  /\ ~table_response.raised
  => /\ Len(batches) = Ceil(Len(result), batch_size)
     /\ \A i \in DOMAIN batches : Len(batches[i].cells) <= batch_size
     /\ ConcatCells(batches) = table_response.cells

\* two spellings are the same name up to letter case
SameName(a, b) ==
  /\ ~a.is_none
  /\ ~b.is_none
  /\ Len(a.chars) = Len(b.chars)
  /\ \A i \in DOMAIN a.chars : LowerChar(a.chars[i]) = LowerChar(b.chars[i])

\* C14: _map_type returns, for a name of the mapping table in any letter case,
\* the type the table gives that name, and the fallback VARCHAR for None and
\* for every name the table does not hold.
C14_MapTypeTotal ==
  "_map_type" \in applied =>
    /\ \A i \in DOMAIN types_map :
         (\E j \in DOMAIN types_map[i].db_types_list :
            SameName(internal_type_name, types_map[i].db_types_list[j]))
           => mysql_type = types_map[i].mysql_data_type
    /\ (\A n \in MappedNames : ~SameName(internal_type_name, n))
         => mysql_type = "VARCHAR"

\* C14 witness: an upper-case spelling of a mapped name was mapped to a type
\* that is not the fallback
C14_Witness ==
  /\ "_map_type" \in applied
  /\ internal_type_name = Upper(Str(<<"b", "i", "g", "i", "n", "t">>))
  /\ internal_type_name # Str(<<"b", "i", "g", "i", "n", "t">>)
  /\ mysql_type = "BIGINT"

\* C15: for a column of an integer or boolean canonical type, wholesale
\* materialization does not fail and keeps every value at its row position,
\* a NULL as an absent value and never as 0 or another number.
C15_NullsStayAbsent ==
  /\ "_make_table_response" \in applied
  /\ table_response.mysql_type \in {"SMALLINT", "INT", "BIGINT", "BOOL"}
  => /\ ~table_response.raised
     /\ Len(table_response.cells) = Len(result)
     /\ \A i \in DOMAIN result :
          IF result[i] = Null
            THEN table_response.cells[i] = <<>>
            ELSE table_response.cells[i] = <<result[i]>>

\* C15 witness: an integer column with a 0 and a NULL was materialized
C15_Witness ==
  /\ "_make_table_response" \in applied
  /\ description = "int4"
  /\ result = <<0, Null>>
  /\ table_response.mysql_type = "INT"
  /\ table_response.cells = <<<<0>>, <<>>>>

(***************************************************************************)
(* Further properties of subscribe().                                      *)
(***************************************************************************)
\* the position of a one-letter column name in the alphabet
AlphabetPosition(c) == CHOOSE i \in DOMAIN LowerCase : LowerCase[i] = c

\* the elements of a set of column names in sorted order
SortedColumns(S) ==
  CHOOSE q \in Orderings(S) :
    \A i, j \in DOMAIN q : i < j => AlphabetPosition(q[i]) < AlphabetPosition(q[j])

\* subscribe() has computed the name of its trigger, function and channel
NameComputed(s) ==
  /\ sub_pc[s] \notin {"unused", "start", "probe"}
  /\ exc[s].site \notin {"start", "probe"}

NextSteps(s, pc) ==
  CASE pc = "start" ->
         {IF columns[s] # <<>> THEN "probe" ELSE "create_function", "raised"}
    [] pc = "probe" -> {"create_function", "raised"}
    [] pc = "create_function" -> {"create_trigger", "raised"}
    [] pc = "create_trigger" -> {"install_commit", "raised"}
    [] pc = "install_commit" -> {"listen", "raised"}
    [] pc = "listen" -> {"loop", "raised"}
    [] pc = "loop" -> {"poll", "drop_trigger"}
    [] pc = "poll" -> {"loop", "drop_trigger"}
    [] pc = "drop_trigger" -> {"drop_function", "raised"}
    [] pc = "drop_function" -> {"cleanup_commit", "raised"}
    [] pc = "cleanup_commit" -> {"close", "raised"}
    [] pc = "close" -> {"returned", "raised"}
    [] OTHER -> {}

\* one step of subscriber s keeps the order of the protocol: it moves to a
\* next position only, and each effect happens at its own statement
StepInOrder(s) ==
  /\ sub_pc'[s] # sub_pc[s] => sub_pc'[s] \in NextSteps(s, sub_pc[s])
  /\ conn'[s] # conn[s] =>
       \/ sub_pc[s] = "start" /\ conn'[s] = "open"
       \/ sub_pc[s] = "close" /\ conn'[s] = "closed"
            /\ sub_pc'[s] \in {"returned", "raised"}
  /\ (FunctionInstalled(s))' /\ ~FunctionInstalled(s) =>
       sub_pc[s] = "create_function" /\ conn[s] = "open"
  /\ (TriggerInstalled(s))' /\ ~TriggerInstalled(s) =>
       sub_pc[s] = "create_trigger" /\ FunctionInstalled(s)
  /\ db_listen'[s] # db_listen[s] /\ db_listen'[s] # NoName =>
       sub_pc[s] = "listen" /\ TriggerInstalled(s) /\ FunctionInstalled(s)
  /\ polled'[s] # polled[s] => sub_pc[s] = "poll" /\ db_listen[s] = trigger_name[s]
  /\ TriggerInstalled(s) /\ ~(TriggerInstalled(s))' => sub_pc[s] = "drop_trigger"
  /\ FunctionInstalled(s) /\ ~(FunctionInstalled(s))' => sub_pc[s] = "drop_function"

Listening(s) == sub_pc[s] \in {"loop", "poll"}

\* subscribe() of s has returned with its trigger and function dropped and
\* its connection closed: CLOSED
Closed(s) ==
  /\ sub_pc[s] = "returned"
  /\ cleanup_started[s]
  /\ ~TriggerInstalled(s)
  /\ ~FunctionInstalled(s)
  /\ conn[s] = "closed"

\* a statement of s, or the handler it runs, has raised
Failed(s) == exc[s] # NoExc

C18_ExecutedAtLeastOnce ==
  h_op = "native_query" /\ h_pc = "idle" /\ response \in {"OK", "TABLE"} =>
    /\ executed >= 1
    /\ params = NoParams => executed = 1
    /\ params # NoParams => params >= 1 /\ executed = params

\* the poll loop of s has seen stop_event set and left through `return`
CancellationObserved(s) == cleanup_started[s] /\ exc[s] = NoExc

LifecycleOps == {"connect", "disconnect", "check_connection", "native_query"}

\* is_connected is true exactly when self.connection is a connection that
\* was opened and not closed, and the handler left no other connection open
ConnectedIffOpen ==
  /\ is_connected <=> connection \in open_conns
  /\ open_conns \subseteq {connection}

\* C21: no step of a connect, disconnect, check_connection or native_query
\* call, failing calls included, takes the handler from a state in which
\* is_connected is true exactly when it holds an open connection, and holds
\* no second one, to a state in which that is no longer so.
C21_ConnectedIffOpen ==
  [][h_op' \in LifecycleOps /\ ConnectedIffOpen => ConnectedIffOpen']_vars
=============================================================================
